---- MODULE Spec2Model ----
(***************************************************************************)
(* Montage pipeline of mediatools.video.ffmpeg (ffmpeg_compilations.py):   *)
(* create_montage -> get_random_clips -> create_compilation ->             *)
(* extract_clips (multiprocessing.Pool) -> concatenate_clips_demux, and    *)
(* the chunked concatenation of scripts/create_montage_v2.py.              *)
(***************************************************************************)
EXTENDS Integers, Sequences, FiniteSets, TLC

(* ------------------------------ bounds --------------------------------- *)
\* most source videos handed to create_montage
MaxSources == 1
\* most clip descriptors handed directly to create_compilation
MaxClips == 3
\* largest explicit num_cores
MaxCores == 2
\* os.cpu_count() of the machine, used by Pool(None)
CpuCount == 2
\* descriptors of the batch used to observe the order of a long clip list
ManyClips == 11

\* longest clip list handed to concatenate_clips_recursive
MaxConcatClips == 31
\* largest chunk_size passed by the caller
MaxChunkSize == 2
\* concatenation commands the environment may make fail in one run
MaxChunkFailures == 2

\* sources handed to one call of get_random_clips
MaxSamplerSources == 2
\* states of the random generator
RngMod == 8

\* inputs and outputs of one FFMPEG command
MaxInputs == 2
MaxOutputs == 2
MaxReads == 2
MaxDuration == 4

(* --------------------------- program constants ------------------------- *)
\* concatenate_clips_recursive(..., chunk_size: int = 30)
DefaultChunkSize == 30
\* max_clips_per_video: int = 10
DefaultMaxClipsPerVideo == 10

(* ------------------------------ values --------------------------------- *)
\* Python's None for a clip path; a Path is never the empty string
None == <<>>
\* num_cores=None is written 0: Pool(None) takes os.cpu_count() workers
NoCores == 0

\* str(i) as character codes
RECURSIVE Digits(_)
Digits(i) == IF i < 10 THEN <<48 + i>> ELSE Digits(i \div 10) \o <<48 + (i % 10)>>

\* f"clip_{i}.mp4" (the i of enumerate(clip_infos), from 0) inside clip_dir
ClipPathUnnumbered(i) == <<99, 108, 105, 112, 46, 109, 112, 52>>
ClipPath(i) == <<99, 108, 105, 112, 95>> \o Digits(i) \o <<46, 109, 112, 52>>

\* 'input_file_list.txt' inside tmp_dir; only its identity matters
ManifestPath == <<105>>

\* str.__lt__ on the file names: PurePath.__lt__ of two paths of one directory
RECURSIVE PathLess(_, _)
PathLess(a, b) ==
    IF b = <<>> THEN FALSE
    ELSE IF a = <<>> THEN TRUE
    ELSE IF Head(a) # Head(b) THEN Head(a) < Head(b)
    ELSE PathLess(Tail(a), Tail(b))

\* sorted() compares every element with a neighbour once the list has two;
\* '<' between a Path and None, or None and None, raises TypeError
SortRaises(s) == Len(s) >= 2 /\ \E k \in 1..Len(s) : s[k].cp = None

\* insertion of x into the sorted list s, after the elements not greater
RECURSIVE Insert(_, _)
Insert(x, s) ==
    IF s = <<>> THEN <<x>>
    ELSE IF PathLess(x.cp, Head(s).cp) THEN <<x>> \o s
    ELSE <<Head(s)>> \o Insert(x, Tail(s))

\* list(sorted(clip_filenames, key=lambda x: x[1])) when no comparison raises
RECURSIVE Sorted(_)
Sorted(s) == IF s = <<>> THEN <<>> ELSE Insert(s[Len(s)], Sorted(SubSeq(s, 1, Len(s) - 1)))

\* list([cp for fp,cp in clips if cp is not None])
RECURSIVE ClipPaths(_)
ClipPaths(s) ==
    IF s = <<>> THEN <<>>
    ELSE IF Head(s).cp # None THEN <<Head(s).cp>> \o ClipPaths(Tail(s))
    ELSE ClipPaths(Tail(s))

(* ------------------------------ state ---------------------------------- *)
VARIABLES
    pc,              \* position of the caller: idle, sampled, extracting, concat, done
    entry,           \* which function the caller called
    installed,       \* executables found on PATH
    video_files,     \* create_montage's video_files (source ids)
    clip_duration,   \* create_montage's clip_duration
    clip_infos,      \* descriptors: the source id (fpath) of each
    num_cores,
    fail_on_error,
    tmp_dir,         \* the TemporaryDirectory: none, present, removed
    tmp_files,       \* files of tmp_dir: path -> what it holds
    pool,            \* the multiprocessing.Pool: none, running, closed
    task,            \* per descriptor: pending, ffmpeg, ffprobe, done, killed
    outqueue,        \* results the workers have sent and the parent has not read
    clip_filenames,  \* the list the parent builds, in completion order
    clips,           \* the list extract_clips returned
    concat_called,   \* whether concatenate_clips_demux was called
    concat_clips,    \* the list handed to concatenate_clips_demux
    output,          \* whether output_filename was written
    nspawn,          \* ffmpeg and ffprobe processes started so far
    faults,          \* clips the environment may still make fail
    result,          \* how the call ended: none, ok, or the exception raised
    \* concatenate_clips_recursive of scripts/create_montage_v2.py
    rc_pc,                  \* idle, enter, chunks, done
    input_clips,            \* the clips of the outermost call
    called_chunk_size,      \* the chunk_size of the outermost call
    rc_clips,               \* clips of the current call
    chunk_size,             \* chunk_size of the current call
    chunk_i,                \* the i of enumerate(chunks)
    intermediate_montages,
    fs,                     \* media files: name -> the clips it holds, in order
    concat_list,            \* what concat_list.txt lists
    nwrites,                \* times concat_list.txt was written
    nconcat,                \* concatenating ffmpeg processes started
    chunk_failures,         \* concatenation commands that failed
    concat_cmd,             \* the last concatenation command
    rc_result,              \* none, True, False
    \* get_random_clips with its start times
    probed,                 \* per source path: what the file system and ffprobe say
    sample_args,            \* clip_duration, random_seed, clip_ratio, max_clips_per_video
    video_paths,            \* the paths in the order of the latest call
    rng,                    \* state of the module-level generator of random
    rng_used,               \* other code drew from the generator since the latest call
    sampled,                \* what the latest call returned or raised, and whether
                            \* other code had drawn from the generator before it
    sampled_first,          \* what the first call returned or raised, and whether
                            \* its paths were passed in sorted order
    \* an FFMPEG command of ffmpeg.py (or ffmpeg_legacy.py) and its run
    cmd,                    \* the FFMPEG object: inputs, outputs, filter_complex, ...
    timeout,                \* the timeout handed to run: None or <<seconds>>
    existing,               \* the outputs (by index) whose file exists
    empty,                  \* the outputs whose file exists with size zero
    argv,                   \* what build_command returned, <<>> before
    spec_args,              \* what from_field_metadatas returned for one spec
    run_pc,                 \* idle, running (in subprocess.run), done
    nrun,                   \* processes the command started
    run_result,             \* what run returned or raised
    \* probe(fp) of probe.py and the ProbeInfo it returns
    format,                 \* the 'format' entry of ffprobe's json for the file
    info,                   \* None, or what probe(fp) returned or raised
    reads,                  \* the property reads made on the ProbeInfo, in order
    \* ffmpeg(input_files, output_file, ...) of ffmpeg.py
    input_files,            \* how many input files the call names
    input_args,             \* its input_args: (name, value) pairs
    output_args,            \* its output_args: (name, value) pairs
    command_flags           \* its command_flags: flag names

pipelineVars == <<pc, entry, installed, video_files, clip_duration, clip_infos, num_cores,
          fail_on_error, tmp_dir, tmp_files, pool, task, outqueue, clip_filenames,
          clips, concat_called, concat_clips, output, nspawn, faults, result>>

concatVars == <<rc_pc, input_clips, called_chunk_size, rc_clips, chunk_size, chunk_i,
                intermediate_montages,
                fs, concat_list, nwrites, nconcat, chunk_failures, concat_cmd, rc_result>>

samplerVars == <<probed, sample_args, video_paths, rng, rng_used, sampled, sampled_first>>

commandVars == <<cmd, timeout, existing, empty, argv, spec_args, run_pc, nrun, run_result>>

probeVars == <<format, info, reads>>

callVars == <<input_files, input_args, output_args, command_flags>>

vars == <<pipelineVars, concatVars, samplerVars, commandVars, probeVars, callVars>>

\* what the operations of one part leave alone
notPipeline == <<concatVars, samplerVars, commandVars, probeVars, callVars>>
notConcat == <<pipelineVars, samplerVars, commandVars, probeVars, callVars>>
notSampler == <<pipelineVars, concatVars, commandVars, probeVars, callVars>>
notCommand == <<pipelineVars, concatVars, samplerVars, probeVars, callVars>>
notProbe == <<pipelineVars, concatVars, samplerVars, commandVars, callVars>>

NoFiles == [p \in {} |-> "video"]

\* the state before the call, apart from the environment
StartPipeline ==
    /\ pc = "idle"
    /\ entry = "none"
    /\ video_files = <<>>
    /\ clip_duration = 1
    /\ clip_infos = <<>>
    /\ num_cores = NoCores
    /\ fail_on_error = FALSE
    /\ tmp_dir = "none"
    /\ tmp_files = NoFiles
    /\ pool = "none"
    /\ task = <<>>
    /\ outqueue = <<>>
    /\ clip_filenames = <<>>
    /\ clips = <<>>
    /\ concat_called = FALSE
    /\ concat_clips = <<>>
    /\ output = FALSE
    /\ nspawn = 0
    /\ result = "none"

StartConcat ==
    /\ rc_pc = "idle"
    /\ input_clips = <<>>
    /\ called_chunk_size = DefaultChunkSize
    /\ rc_clips = <<>>
    /\ chunk_size = DefaultChunkSize
    /\ chunk_i = 0
    /\ intermediate_montages = <<>>
    /\ fs = [f \in {} |-> <<>>]
    /\ concat_list = <<>>
    /\ nwrites = 0
    /\ nconcat = 0
    /\ chunk_failures = 0
    /\ concat_cmd = [inputs |-> <<>>, output |-> <<>>, vcodec |-> "", acodec |-> ""]
    /\ rc_result = "none"

StartSampler ==
    /\ probed = <<>>
    /\ sample_args = [clip_duration |-> 1, random_seed |-> 0, clip_ratio |-> 1,
                      max_clips_per_video |-> 1]
    /\ video_paths = <<>>
    /\ rng = 0
    /\ rng_used = FALSE
    /\ sampled = [out |-> "none", clips |-> <<>>, after_use |-> FALSE]
    /\ sampled_first = [out |-> "none", clips |-> <<>>, in_order |-> FALSE]

\* no command built yet
NoCommand == [inputs |-> <<>>, outputs |-> <<>>, filter_complex |-> <<>>,
              loglevel |-> <<>>, hide_banner |-> <<[ty |-> "bool", v |-> "True"]>>,
              nostats |-> <<[ty |-> "bool", v |-> "True"]>>,
              progress |-> <<>>, other_args |-> <<>>, other_flags |-> <<>>,
              legacy |-> FALSE]
NoResult == [kind |-> "none", stdout |-> "", stderr |-> "", cmd |-> <<>>,
             how |-> "none", code |-> 0]

NoArgs == [of |-> "none", args |-> <<>>]
StartCommand ==
    /\ cmd = NoCommand
    /\ timeout = <<>>
    /\ existing = {}
    /\ empty = {}
    /\ argv = <<>>
    /\ spec_args = NoArgs
    /\ run_pc = "idle"
    /\ nrun = 0
    /\ run_result = NoResult

NoFormat == [duration |-> <<>>, start_time |-> <<>>, video |-> FALSE]
StartProbe == format = NoFormat /\ info = <<>> /\ reads = <<>>
StartCall ==
    input_files = 0 /\ input_args = <<>> /\ output_args = <<>> /\ command_flags = <<>>
Start ==
    StartPipeline /\ StartConcat /\ StartSampler /\ StartCommand /\ StartProbe /\ StartCall

\* any executables on PATH; every clip may fail
Init ==
    /\ Start
    /\ installed \in SUBSET {"ffmpeg", "ffprobe"}
    /\ faults = MaxClips + 2 * MaxSources

\* the long batch: both executables on PATH, no clip fails
InitOrder ==
    /\ Start
    /\ installed = {"ffmpeg", "ffprobe"}
    /\ faults = 0


(* --------------------------- input domains ----------------------------- *)
\* what the file system and ffprobe say about one source video
SourceStates ==
    {[kind |-> "missing", dur |-> 0], [kind |-> "unprobeable", dur |-> 0],
     [kind |-> "noduration", dur |-> 0]}
    \cup {[kind |-> "video", dur |-> d] : d \in {0, 1, 2}}
ClipDurations == {-1, 0, 2}
ClipRatios == {1, 2}
MaxClipsPerVideo == {1, DefaultMaxClipsPerVideo}

Max(a, b) == IF a >= b THEN a ELSE b
Min(a, b) == IF a <= b THEN a ELSE b

(* ------------------------- get_random_clips ---------------------------- *)
\* the number of clips of one source of duration d > 0
NumClips(d, cd, ratio, maxc) ==
    IF d < cd THEN 1 ELSE Min(Max(1, d \div ratio), maxc)

\* index of the first source whose probe is attempted and raises
\* FFMPEGNotFoundError (ffprobe not on PATH); 0 when no probe raises it
FirstProbe(n) == IF n >= 1 /\ "ffprobe" \notin installed THEN 1 ELSE 0

\* the descriptors of sources k..n in order, one entry (the source) per clip
RECURSIVE Sample(_, _, _, _, _, _)
Sample(src, k, n, cd, ratio, maxc) ==
    IF k > n THEN <<>>
    ELSE IF src[k].kind # "video" \/ src[k].dur = 0
         THEN Sample(src, k + 1, n, cd, ratio, maxc)
         ELSE [j \in 1..NumClips(src[k].dur, cd, ratio, maxc) |-> k]
              \o Sample(src, k + 1, n, cd, ratio, maxc)

\* how get_random_clips ends: the exception it raises, or "ok"
SampleOutcome(src, n, cd) ==
    IF \E k \in 1..n : src[k].kind = "missing" THEN "ValueError"
    ELSE IF cd <= 0 THEN "ValueError"
    ELSE IF FirstProbe(n) # 0 THEN "FFMPEGNotFoundError"
    ELSE "ok"

\* ffprobe processes get_random_clips starts
SampleProbes(src, n, cd) ==
    IF SampleOutcome(src, n, cd) = "ok" THEN n ELSE 0

(* ------------------------------ the pool ------------------------------- *)
\* multiprocessing.Pool(num_cores): os.cpu_count() workers for None
PoolSize(nc) == IF nc = NoCores THEN CpuCount ELSE nc

Running == {i \in DOMAIN task : task[i] \in {"ffmpeg", "ffprobe"}}

\* a process per task, whatever the pool size
WorkerFreeAlways == TRUE

\* a worker of the pool is idle
WorkerFree == Cardinality(Running) < PoolSize(num_cores)

\* Pool.terminate(): the workers are killed with what they run
Terminated(t) == [i \in DOMAIN t |-> IF t[i] \in {"pending", "ffmpeg", "ffprobe"}
                                     THEN "killed" ELSE t[i]]

\* the loop left after the first result
AllConsumedFirst == Len(clip_filenames) >= 1

\* the for loop over clip_iter has ended: one result per submitted task was read
AllConsumed == Len(clip_filenames) = Len(clip_infos)

(* ----------------------- tempfile.TemporaryDirectory ------------------- *)
\* the directory removed by a statement at the end of the block, not by __exit__
TmpDirKeptOnError(dir, raised) == IF raised THEN dir ELSE "removed"

\* __exit__ of the with block, on return and on exception alike
TmpDirAfterExit(dir, raised) == "removed"

\* what leaving create_compilation does to the state
Leave(res, raised) ==
    /\ pc' = "done"
    /\ result' = res
    /\ tmp_dir' = TmpDirAfterExit(tmp_dir, raised)
    /\ tmp_files' = IF TmpDirAfterExit(tmp_dir, raised) = "removed" THEN NoFiles ELSE tmp_files

\* create_compilation up to the first wait of extract_clips: the scratch
\* directory, the packaged data, the pool and the submitted tasks
StartExtraction(ci) ==
    /\ pc' = "extracting"
    /\ tmp_dir' = "present"
    /\ tmp_files' = NoFiles
    /\ pool' = "running"
    /\ task' = [i \in 1..Len(ci) |-> "pending"]
    /\ outqueue' = <<>>
    /\ clip_filenames' = <<>>

(* ------------------------------ actions -------------------------------- *)
\* create_montage(video_files, ...) up to the return of get_random_clips
GetRandomClips ==
    /\ pc = "idle"
    /\ \E n \in 0..MaxSources, cd \in ClipDurations, ratio \in ClipRatios,
          maxc \in MaxClipsPerVideo, nc \in 0..MaxCores :
       \E src \in [1..n -> SourceStates] :
          /\ entry' = "create_montage"
          /\ video_files' = [k \in 1..n |-> k]
          /\ clip_duration' = cd
          /\ num_cores' = nc
          /\ fail_on_error' = FALSE
          /\ nspawn' = nspawn + SampleProbes(src, n, cd)
          /\ IF SampleOutcome(src, n, cd) = "ok"
             THEN /\ pc' = "sampled"
                  /\ clip_infos' = Sample(src, 1, n, cd, ratio, maxc)
                  /\ UNCHANGED result
             ELSE /\ pc' = "done"
                  /\ result' = SampleOutcome(src, n, cd)
                  /\ UNCHANGED clip_infos
    /\ UNCHANGED <<installed, tmp_dir, tmp_files, pool, task, outqueue, clip_filenames,
                   clips, concat_called, concat_clips, output, faults>>
    /\ UNCHANGED notPipeline

\* create_montage goes on into create_compilation
CreateCompilation ==
    /\ pc = "sampled"
    /\ StartExtraction(clip_infos)
    /\ UNCHANGED <<entry, installed, video_files, clip_duration, clip_infos, num_cores,
                   fail_on_error, clips, concat_called, concat_clips, output, nspawn, faults, result>>
    /\ UNCHANGED notPipeline

\* create_compilation(clip_infos, ..., fail_on_error) called by a script
CallCreateCompilation ==
    /\ pc = "idle"
    /\ \E n \in 0..MaxClips, nc \in 0..MaxCores, foe \in BOOLEAN :
          /\ entry' = "create_compilation"
          /\ clip_infos' = [i \in 1..n |-> i]
          /\ num_cores' = nc
          /\ fail_on_error' = foe
          /\ StartExtraction([i \in 1..n |-> i])
    /\ UNCHANGED <<installed, video_files, clip_duration, clips, concat_called, concat_clips,
                   output, nspawn, faults, result>>
    /\ UNCHANGED notPipeline

\* create_compilation called with the long batch, fail_on_error left False
CallCreateCompilationMany ==
    /\ pc = "idle"
    /\ \E nc \in 1..MaxCores :
          /\ entry' = "create_compilation"
          /\ clip_infos' = [i \in 1..ManyClips |-> i]
          /\ num_cores' = nc
          /\ fail_on_error' = FALSE
          /\ StartExtraction([i \in 1..ManyClips |-> i])
    /\ UNCHANGED <<installed, video_files, clip_duration, clips, concat_called, concat_clips,
                   output, nspawn, faults, result>>
    /\ UNCHANGED notPipeline


(* ------------------ extract_clip_process, in a worker ------------------ *)
\* what a worker sends back for task i: the returned (fpath, clip path), or
\* the exception that left extract_clip_process
Returned(i, path) == [i |-> i, fp |-> clip_infos[i], cp |-> path, exc |-> "none"]
Raised(i, e) == [i |-> i, fp |-> clip_infos[i], cp |-> None, exc |-> e]

\* the worker takes the next task of the queue and cmd.run() starts ffmpeg;
\* without the executable run_ffmpeg_subprocess raises FFMPEGNotFoundError,
\* which the except FFMPEGExecutionError clause does not catch
WorkerStart(i) ==
    /\ pc = "extracting"
    /\ pool = "running"
    /\ task[i] = "pending"
    /\ \A j \in 1..(i - 1) : task[j] # "pending"
    /\ WorkerFree
    /\ IF "ffmpeg" \in installed
       THEN /\ task' = [task EXCEPT ![i] = "ffmpeg"]
            /\ nspawn' = nspawn + 1
            /\ UNCHANGED outqueue
       ELSE /\ task' = [task EXCEPT ![i] = "done"]
            /\ outqueue' = Append(outqueue, Raised(i, "FFMPEGNotFoundError"))
            /\ UNCHANGED nspawn
    /\ UNCHANGED <<pc, entry, installed, video_files, clip_duration, clip_infos, num_cores,
                   fail_on_error, tmp_dir, tmp_files, pool, clip_filenames, clips, concat_called,
                   concat_clips, output, faults, result>>
    /\ UNCHANGED notPipeline

\* ffmpeg exits: non-zero (FFMPEGExecutionError, caught: the clip is None),
\* or zero with a video or with an empty file; FFMPEG.run does not look at
\* the file, so probe(processed_clip_path) comes next
FfmpegExit(i) ==
    /\ pc = "extracting"
    /\ task[i] = "ffmpeg"
    /\ \E out \in {"video"} \cup (IF faults > 0 THEN {"empty", "error"} ELSE {}) :
          /\ faults' = IF out = "video" THEN faults ELSE faults - 1
          /\ IF out = "error"
             THEN /\ task' = [task EXCEPT ![i] = "done"]
                  /\ outqueue' = Append(outqueue, Returned(i, None))
                  /\ UNCHANGED <<tmp_files, nspawn>>
             ELSE /\ tmp_files' = [p \in DOMAIN tmp_files \cup {ClipPath(i - 1)} |->
                                      IF p = ClipPath(i - 1) THEN out ELSE tmp_files[p]]
                  /\ IF "ffprobe" \in installed
                     THEN /\ task' = [task EXCEPT ![i] = "ffprobe"]
                          /\ nspawn' = nspawn + 1
                          /\ UNCHANGED outqueue
                     ELSE /\ task' = [task EXCEPT ![i] = "done"]
                          /\ outqueue' = Append(outqueue, Raised(i, "FFMPEGNotFoundError"))
                          /\ UNCHANGED nspawn
    /\ UNCHANGED <<pc, entry, installed, video_files, clip_duration, clip_infos, num_cores,
                   fail_on_error, tmp_dir, pool, clip_filenames, clips, concat_called,
                   concat_clips, output, result>>
    /\ UNCHANGED notPipeline

\* ffprobe exits: zero, or non-zero (ProbeError, an FFMPEGExecutionError,
\* caught); an empty file never probes
ProbeExit(i) ==
    /\ pc = "extracting"
    /\ task[i] = "ffprobe"
    /\ \E ok \in BOOLEAN :
          /\ tmp_files[ClipPath(i - 1)] = "empty" => ~ok
          /\ (tmp_files[ClipPath(i - 1)] = "video" /\ ~ok) => faults > 0
          /\ faults' = IF tmp_files[ClipPath(i - 1)] = "video" /\ ~ok THEN faults - 1 ELSE faults
          /\ outqueue' = Append(outqueue, Returned(i, IF ok THEN ClipPath(i - 1) ELSE None))
    /\ task' = [task EXCEPT ![i] = "done"]
    /\ UNCHANGED <<pc, entry, installed, video_files, clip_duration, clip_infos, num_cores,
                   fail_on_error, tmp_dir, tmp_files, pool, clip_filenames, clips, concat_called,
                   concat_clips, output, nspawn, result>>
    /\ UNCHANGED notPipeline

(* ---------------------- extract_clips, in the parent ------------------- *)
\* the next (fp, cp) of clip_iter is kept
ParentAppend ==
    /\ pc = "extracting"
    /\ outqueue # <<>>
    /\ Head(outqueue).exc = "none"
    /\ Head(outqueue).cp # None \/ ~fail_on_error
    /\ clip_filenames' = Append(clip_filenames,
                                [fp |-> Head(outqueue).fp, cp |-> Head(outqueue).cp])
    /\ outqueue' = Tail(outqueue)
    /\ UNCHANGED <<pc, entry, installed, video_files, clip_duration, clip_infos, num_cores,
                   fail_on_error, tmp_dir, tmp_files, pool, task, clips, concat_called,
                   concat_clips, output, nspawn, faults, result>>
    /\ UNCHANGED notPipeline

\* next(clip_iter) re-raises a worker's exception, or the loop raises
\* RuntimeError for a None clip under fail_on_error; the with blocks unwind:
\* Pool.__exit__ terminates the pool, the TemporaryDirectory is removed
ParentRaise ==
    /\ pc = "extracting"
    /\ outqueue # <<>>
    /\ Head(outqueue).exc # "none" \/ (Head(outqueue).cp = None /\ fail_on_error)
    /\ Leave(IF Head(outqueue).exc # "none" THEN Head(outqueue).exc ELSE "RuntimeError", TRUE)
    /\ task' = Terminated(task)
    /\ pool' = "closed"
    /\ outqueue' = <<>>
    /\ UNCHANGED <<entry, installed, video_files, clip_duration, clip_infos, num_cores,
                   fail_on_error, clip_filenames, clips, concat_called, concat_clips, output,
                   nspawn, faults>>
    /\ UNCHANGED notPipeline

\* how the rest of create_compilation goes once the loop has ended: the
\* exception raised before ffmpeg runs, or "run" when the concatenation starts
ReturnOutcome ==
    IF SortRaises(clip_filenames) THEN "TypeError"
    ELSE IF ClipPaths(Sorted(clip_filenames)) = <<>> THEN "ValueError"
    ELSE IF ManifestPath \in DOMAIN tmp_files THEN "FileExistsError"
    ELSE IF "ffmpeg" \notin installed THEN "FFMPEGNotFoundError"
    ELSE "run"

\* the loop ends, the pool is left, extract_clips sorts and returns, and
\* create_compilation calls concatenate_clips_demux, which writes the file
\* list and starts ffmpeg
ExtractReturn ==
    /\ pc = "extracting"
    /\ outqueue = <<>>
    /\ AllConsumed
    /\ task' = Terminated(task)
    /\ pool' = "closed"
    /\ clips' = IF ReturnOutcome = "TypeError" THEN clips ELSE Sorted(clip_filenames)
    /\ concat_called' = (ReturnOutcome # "TypeError")
    /\ concat_clips' = IF ReturnOutcome = "TypeError" THEN concat_clips
                       ELSE ClipPaths(Sorted(clip_filenames))
    /\ IF ReturnOutcome = "run"
       THEN /\ pc' = "concat"
            /\ tmp_files' = [p \in DOMAIN tmp_files \cup {ManifestPath} |->
                                IF p = ManifestPath THEN "text" ELSE tmp_files[p]]
            /\ nspawn' = nspawn + 1
            /\ UNCHANGED <<tmp_dir, result>>
       ELSE /\ Leave(ReturnOutcome, TRUE)
            /\ UNCHANGED nspawn
    /\ UNCHANGED <<entry, installed, video_files, clip_duration, clip_infos, num_cores,
                   fail_on_error, outqueue, clip_filenames, output, faults>>
    /\ UNCHANGED notPipeline

\* the concatenating ffmpeg exits and create_compilation returns or raises
ConcatExit ==
    /\ pc = "concat"
    /\ \E ok \in BOOLEAN :
          /\ output' = ok
          /\ Leave(IF ok THEN "ok" ELSE "FFMPEGExecutionError", ~ok)
    /\ UNCHANGED <<entry, installed, video_files, clip_duration, clip_infos, num_cores,
                   fail_on_error, pool, task, outqueue, clip_filenames, clips, concat_called,
                   concat_clips, nspawn, faults>>
    /\ UNCHANGED notPipeline

Next ==
    \/ GetRandomClips
    \/ CreateCompilation
    \/ CallCreateCompilation
    \/ \E i \in DOMAIN task : WorkerStart(i)
    \/ \E i \in DOMAIN task : FfmpegExit(i)
    \/ \E i \in DOMAIN task : ProbeExit(i)
    \/ ParentAppend
    \/ ParentRaise
    \/ ExtractReturn
    \/ ConcatExit

Spec == Init /\ [][Next]_vars

\* the long batch run through the same workers and parent
NextOrder ==
    \/ CallCreateCompilationMany
    \/ \E i \in DOMAIN task : WorkerStart(i)
    \/ \E i \in DOMAIN task : FfmpegExit(i)
    \/ \E i \in DOMAIN task : ProbeExit(i)
    \/ ParentAppend
    \/ ExtractReturn
    \/ ConcatExit

SpecOrder == InitOrder /\ [][NextOrder]_vars

\* create_compilation called with the long batch and num_cores=2
CallCreateCompilationTwoCores ==
    /\ pc = "idle"
    /\ entry' = "create_compilation"
    /\ clip_infos' = [i \in 1..ManyClips |-> i]
    /\ num_cores' = 2
    /\ fail_on_error' = FALSE
    /\ StartExtraction([i \in 1..ManyClips |-> i])
    /\ UNCHANGED <<installed, video_files, clip_duration, clips, concat_called, concat_clips,
                   output, nspawn, faults, result>>
    /\ UNCHANGED notPipeline

\* the long batch on two workers
NextTwoCores ==
    \/ CallCreateCompilationTwoCores
    \/ \E i \in DOMAIN task : WorkerStart(i)
    \/ \E i \in DOMAIN task : FfmpegExit(i)
    \/ \E i \in DOMAIN task : ProbeExit(i)
    \/ ParentAppend
    \/ ExtractReturn
    \/ ConcatExit

SpecTwoCores == InitOrder /\ [][NextTwoCores]_vars


(* ------------- scripts/create_montage_v2.py: concatenation -------------- *)
\* file names: the clips handed in, the chunk_<i>.mp4 of tmp_dir, the output
ClipFile(k) == <<"clip", k>>
ChunkFile(i) == <<"chunk", i>>
OutputFile == <<"output", 0>>

\* chunks = [clips[i:i + chunk_size] for i in range(0, len(clips), chunk_size)]
NumChunks(cl, c) == (Len(cl) + c - 1) \div c
Chunk(cl, c, i) == SubSeq(cl, i * c + 1, Min(Len(cl), (i + 1) * c))

\* What a successful concatenation writes: the inputs' content in list order.
\* The command opens its output for writing (overwrite_output) before it reads
\* the listed files, so a listed file that is the output has lost its content.
RECURSIVE Concatenated(_, _, _)
Concatenated(files, cl, out) ==
    IF cl = <<>> THEN <<>>
    ELSE (IF Head(cl) = out THEN <<>> ELSE files[Head(cl)])
         \o Concatenated(files, Tail(cl), out)

\* the outcomes of the concatenating ffmpeg: a list without entries always fails
Outcomes(cl) ==
    IF cl = <<>> THEN {FALSE}
    ELSE IF chunk_failures < MaxChunkFailures THEN {TRUE, FALSE} ELSE {TRUE}

WriteFile(files, out, content) ==
    [f \in DOMAIN files \cup {out} |-> IF f = out THEN content ELSE files[f]]

\* concatenate_clips_direct(clips, output_filename, tmp_dir) returning ok
ConcatenateClipsDirect(cl, out, ok) ==
    /\ concat_list' = cl
    /\ nwrites' = nwrites + 1
    /\ concat_cmd' = [inputs |-> <<"concat_list.txt">>, output |-> out,
                      vcodec |-> "libx264", acodec |-> "aac"]
    /\ nconcat' = nconcat + 1
    /\ chunk_failures' = IF ok \/ cl = <<>> THEN chunk_failures ELSE chunk_failures + 1
    /\ fs' = IF ok THEN WriteFile(fs, out, Concatenated(fs, cl, out)) ELSE fs

\* a caller hands n clips and a chunk_size to concatenate_clips_recursive
CallConcatenateClipsRecursive ==
    /\ rc_pc = "idle"
    /\ \E n \in 0..MaxConcatClips, c \in 1..MaxChunkSize :
        /\ input_clips' = [k \in 1..n |-> ClipFile(k)]
        /\ rc_clips' = [k \in 1..n |-> ClipFile(k)]
        /\ fs' = [f \in {ClipFile(k) : k \in 1..n} |-> <<f[2]>>]
        /\ chunk_size' = c
        /\ called_chunk_size' = c
    /\ rc_pc' = "enter"
    /\ UNCHANGED <<chunk_i, intermediate_montages, concat_list, nwrites, nconcat,
                   chunk_failures, concat_cmd, rc_result>>
    /\ UNCHANGED notConcat

\* if len(clips) <= chunk_size: return concatenate_clips_direct(...)
BaseCase ==
    /\ rc_pc = "enter"
    /\ Len(rc_clips) <= chunk_size
    /\ \E ok \in Outcomes(rc_clips) :
        /\ ConcatenateClipsDirect(rc_clips, OutputFile, ok)
        /\ rc_result' = IF ok THEN "True" ELSE "False"
    /\ rc_pc' = "done"
    /\ UNCHANGED <<input_clips, called_chunk_size, rc_clips, chunk_size, chunk_i, intermediate_montages>>
    /\ UNCHANGED notConcat

\* chunks = [...]; intermediate_montages = []
SplitChunks ==
    /\ rc_pc = "enter"
    /\ Len(rc_clips) > chunk_size
    /\ chunk_i' = 0
    /\ intermediate_montages' = <<>>
    /\ rc_pc' = "chunks"
    /\ UNCHANGED <<input_clips, called_chunk_size, rc_clips, chunk_size, fs, concat_list, nwrites, nconcat,
                   chunk_failures, concat_cmd, rc_result>>
    /\ UNCHANGED notConcat

\* if concatenate_clips_direct(...): intermediate_montages.append(chunk_output)
CollectedAlways(montages, chunk_output, ok) == Append(montages, chunk_output)
Collected(montages, chunk_output, ok) ==
    IF ok THEN Append(montages, chunk_output) ELSE montages

\* one turn of: for i, chunk in enumerate(chunks)
ProcessChunk ==
    /\ rc_pc = "chunks"
    /\ chunk_i < NumChunks(rc_clips, chunk_size)
    /\ \E ok \in Outcomes(Chunk(rc_clips, chunk_size, chunk_i)) :
        /\ ConcatenateClipsDirect(Chunk(rc_clips, chunk_size, chunk_i), ChunkFile(chunk_i), ok)
        /\ intermediate_montages' = Collected(intermediate_montages, ChunkFile(chunk_i), ok)
    /\ chunk_i' = chunk_i + 1
    /\ UNCHANGED <<rc_pc, input_clips, called_chunk_size, rc_clips, chunk_size, rc_result>>
    /\ UNCHANGED notConcat

\* if not intermediate_montages: return False
NoIntermediate ==
    /\ rc_pc = "chunks"
    /\ chunk_i = NumChunks(rc_clips, chunk_size)
    /\ intermediate_montages = <<>>
    /\ rc_result' = "False"
    /\ rc_pc' = "done"
    /\ UNCHANGED <<input_clips, called_chunk_size, rc_clips, chunk_size, chunk_i, intermediate_montages, fs,
                   concat_list, nwrites, nconcat, chunk_failures, concat_cmd>>
    /\ UNCHANGED notConcat

\* shutil.move(src, dst)
MoveKeepingSource(files, src, dst) ==
    [f \in DOMAIN files \cup {dst} |-> IF f = dst THEN files[src] ELSE files[f]]
Move(files, src, dst) ==
    [f \in (DOMAIN files \ {src}) \cup {dst} |-> IF f = dst THEN files[src] ELSE files[f]]

\* if len(intermediate_montages) == 1: shutil.move(...); return True
MoveSingle ==
    /\ rc_pc = "chunks"
    /\ chunk_i = NumChunks(rc_clips, chunk_size)
    /\ Len(intermediate_montages) = 1
    /\ fs' = Move(fs, intermediate_montages[1], OutputFile)
    /\ rc_result' = "True"
    /\ rc_pc' = "done"
    /\ UNCHANGED <<input_clips, called_chunk_size, rc_clips, chunk_size, chunk_i, intermediate_montages,
                   concat_list, nwrites, nconcat, chunk_failures, concat_cmd>>
    /\ UNCHANGED notConcat

\* the chunk_size of the recursive call: the call names no chunk_size, so the
\* parameter takes its default whatever the caller's chunk_size c is
CallerChunkSize(c) == c
RecursionChunkSize(c) == DefaultChunkSize

\* return concatenate_clips_recursive(intermediate_montages, output_filename, tmp_dir)
Recurse ==
    /\ rc_pc = "chunks"
    /\ chunk_i = NumChunks(rc_clips, chunk_size)
    /\ Len(intermediate_montages) >= 2
    /\ rc_clips' = intermediate_montages
    /\ chunk_size' = RecursionChunkSize(chunk_size)
    /\ rc_pc' = "enter"
    /\ UNCHANGED <<input_clips, called_chunk_size, chunk_i, intermediate_montages, fs, concat_list, nwrites,
                   nconcat, chunk_failures, concat_cmd, rc_result>>
    /\ UNCHANGED notConcat

NextConcat ==
    \/ CallConcatenateClipsRecursive
    \/ BaseCase
    \/ SplitChunks
    \/ ProcessChunk
    \/ NoIntermediate
    \/ MoveSingle
    \/ Recurse

SpecConcat == InitOrder /\ [][NextConcat]_vars

\* the steps of a call once it is made: the interpreter runs the function on,
\* and every concatenating ffmpeg exits
StepConcat ==
    BaseCase \/ SplitChunks \/ ProcessChunk \/ NoIntermediate \/ MoveSingle \/ Recurse
SpecConcatFair == InitOrder /\ [][NextConcat]_vars /\ WF_vars(StepConcat)

(* ------------------- get_random_clips: the descriptors ------------------ *)
\* Source paths are 1, 2, ... in the order sorted() gives them.  Times are
\* whole seconds; a start time is the exact fraction num / den.
SamplerClipDurations == {0, 1, 2}
Seeds == {0, 1}

\* random.seed(a) and one draw of random.random(): the value drawn is
\* Draw(x) / RngMod, in [0, 1), and the generator moves on to NextRng(x)
Seeded(a) == a % RngMod
Draw(x) == x
NextRng(x) == (5 * x + 3) % RngMod

\* the generator at the first draw of a call made when it was in state prior
RngUnseeded(random_seed, prior) == prior
RngAtStart(random_seed, prior) == Seeded(random_seed)

\* for video_path in sorted(video_paths)
RECURSIVE InsertPath(_, _)
InsertPath(x, sq) ==
    IF sq = <<>> THEN <<x>>
    ELSE IF x <= Head(sq) THEN <<x>> \o sq
    ELSE <<Head(sq)>> \o InsertPath(x, Tail(sq))
RECURSIVE SortedPaths(_)
SortedPaths(sq) ==
    IF sq = <<>> THEN <<>> ELSE InsertPath(Head(sq), SortedPaths(Tail(sq)))

\* whether the NoDurationError that ProbeInfo.duration raises is caught by
\* except FFMPEGExecutionError: probe_info.py takes the class from a module
\* that is not among the sources; errors.py of the same package declares
\* NoDurationError under ProbeError under FFMPEGExecutionError
NoDurationCaught == TRUE

\* a source the loop passes over: probe raises ProbeError, .duration raises
\* NoDurationError, or the duration is 0
SkippedUnlessZero(st) == st.kind # "video"
Skipped(st) == st.kind # "video" \/ st.dur = 0

\* max(min_start, min(max_start, start_time)) on fractions of one denominator
Unclamped(num, den, max_start) == [num |-> num, den |-> den]
Clamp(num, den, max_start) ==
    [num |-> Max(0, Min(max_start * den, num)), den |-> den]

\* start_time of clip n of num_clips of a source of duration d, drawn at x
StartTime(d, n, num_clips, x) ==
    LET cd == sample_args.clip_duration
        max_start == d - cd
    IN  IF d <= cd THEN [num |-> 0, den |-> 1]
        ELSE IF num_clips > 1
             THEN Clamp(max_start * (4 * n * RngMod - RngMod + 2 * Draw(x)),
                        4 * num_clips * RngMod, max_start)
             ELSE [num |-> max_start * Draw(x), den |-> RngMod]

\* the ClipInfo of clip n
ClipInfo(k, d, n, num_clips, x) ==
    [fpath |-> k, start_time |-> StartTime(d, n, num_clips, x),
     duration |-> sample_args.clip_duration]

\* for n in range(num_clips), from n on, the generator being at x
RECURSIVE ClipsOf(_, _, _, _, _)
ClipsOf(k, d, n, num_clips, x) ==
    IF n >= num_clips THEN <<>>
    ELSE <<ClipInfo(k, d, n, num_clips, x)>>
         \o ClipsOf(k, d, n + 1, num_clips,
                    IF d > sample_args.clip_duration THEN NextRng(x) ELSE x)

\* the generator after the clips of one source
RECURSIVE RngAfter(_, _, _)
RngAfter(d, num_clips, x) ==
    IF num_clips <= 0 \/ d <= sample_args.clip_duration THEN x
    ELSE RngAfter(d, num_clips - 1, NextRng(x))

SourceClips(st) ==
    IF Skipped(st) THEN 0
    ELSE NumClips(st.dur, sample_args.clip_duration, sample_args.clip_ratio,
                  sample_args.max_clips_per_video)

\* the loop over the sorted paths
RECURSIVE LoopClips(_, _)
LoopClips(paths, x) ==
    IF paths = <<>> THEN <<>>
    ELSE LET st == probed[Head(paths)]
         IN  ClipsOf(Head(paths), st.dur, 0, SourceClips(st), x)
             \o LoopClips(Tail(paths), RngAfter(st.dur, SourceClips(st), x))

RECURSIVE LoopRng(_, _)
LoopRng(paths, x) ==
    IF paths = <<>> THEN x
    ELSE LoopRng(Tail(paths), RngAfter(probed[Head(paths)].dur,
                                       SourceClips(probed[Head(paths)]), x))

\* how a call with these paths ends
RandomClipsOutcome(paths) ==
    IF \E i \in DOMAIN paths : probed[paths[i]].kind = "missing" THEN "ValueError"
    ELSE IF sample_args.clip_duration <= 0 THEN "ValueError"
    ELSE IF paths # <<>> /\ "ffprobe" \notin installed THEN "FFMPEGNotFoundError"
    ELSE IF ~NoDurationCaught /\ \E i \in DOMAIN paths : probed[paths[i]].kind = "noduration"
         THEN "NoDurationError"
    ELSE "ok"

\* get_random_clips(video_paths, ...) called with the generator in state prior
RandomClips(paths, prior) ==
    [out |-> RandomClipsOutcome(paths),
     clips |-> IF RandomClipsOutcome(paths) = "ok"
               THEN LoopClips(SortedPaths(paths), RngAtStart(sample_args.random_seed, prior))
               ELSE <<>>]

Orders(n) == {sq \in [1..n -> 1..n] : \A i, j \in 1..n : sq[i] = sq[j] => i = j}

InitSampler ==
    /\ StartCall
    /\ StartPipeline
    /\ installed = {"ffmpeg", "ffprobe"}
    /\ faults = 0
    /\ StartConcat
    /\ StartCommand /\ StartProbe
    /\ \E n \in 0..MaxSamplerSources : probed \in [1..n -> SourceStates]
    /\ sample_args \in [clip_duration : SamplerClipDurations, random_seed : Seeds,
                        clip_ratio : ClipRatios, max_clips_per_video : MaxClipsPerVideo]
    /\ video_paths = <<>>
    /\ rng = 0
    /\ rng_used = FALSE
    /\ sampled = [out |-> "none", clips |-> <<>>, after_use |-> FALSE]
    /\ sampled_first = [out |-> "none", clips |-> <<>>, in_order |-> FALSE]

\* other code draws from the module-level generator
UseRandom ==
    /\ rng' = NextRng(rng)
    /\ rng_used' = TRUE
    /\ UNCHANGED <<probed, sample_args, video_paths, sampled, sampled_first>>
    /\ UNCHANGED notSampler

\* a call of get_random_clips with the sources in some order
CallGetRandomClips ==
    /\ \E order \in Orders(Len(probed)) :
        /\ video_paths' = order
        /\ sampled' = [out |-> RandomClips(order, rng).out,
                       clips |-> RandomClips(order, rng).clips,
                       after_use |-> rng_used]
        /\ sampled_first' = IF sampled_first.out = "none"
                             THEN [out |-> RandomClips(order, rng).out,
                                   clips |-> RandomClips(order, rng).clips,
                                   in_order |-> (order = SortedPaths(order))]
                             ELSE sampled_first
        /\ rng' = IF RandomClipsOutcome(order) = "ok"
                  THEN LoopRng(SortedPaths(order), RngAtStart(sample_args.random_seed, rng))
                  ELSE RngAtStart(sample_args.random_seed, rng)
    /\ rng_used' = FALSE
    /\ UNCHANGED <<probed, sample_args>>
    /\ UNCHANGED notSampler

NextSampler ==
    \/ UseRandom
    \/ CallGetRandomClips

SpecSampler == InitSampler /\ [][NextSampler]_vars

(* ----------------- ffmpeg.py: building an FFMPEG command ---------------- *)
\* A field value is None or <<v>>, v a bool or a str with its str() text.
Bool(b) == <<[ty |-> "bool", v |-> IF b THEN "True" ELSE "False"]>>
Str(text) == <<[ty |-> "str", v |-> text]>>
IntVal(text) == <<[ty |-> "int", v |-> text]>>

\* A token of the argument list is a record: an option name with its dash, a
\* value, a file path, or the program.
Opt(name) == [kind |-> "opt", s |-> name, n |-> 0]
Val(v) == [kind |-> "val", s |-> v, n |-> 0]
InFile(i) == [kind |-> "file", s |-> "in", n |-> i]
OutFile(j) == [kind |-> "file", s |-> "out", n |-> j]
Prog == [kind |-> "prog", s |-> "ffmpeg", n |-> 0]

\* dataclasses.fields(...) with their metadata, in declaration order (the
\* fields declared between these are left at None and are not listed)
FFInputFields ==
    << [name |-> "f", meta |-> "arg", opt |-> "f"],
       [name |-> "t", meta |-> "arg", opt |-> "t"],
       [name |-> "ss", meta |-> "arg", opt |-> "ss"],
       [name |-> "cv", meta |-> "arg", opt |-> "c:v"],
       [name |-> "safe", meta |-> "flag", opt |-> "safe"],
       [name |-> "accurate_seek", meta |-> "flag", opt |-> "accurate_seek"] >>
FFOutputFields ==
    << [name |-> "overwrite", meta |-> "flag", opt |-> "y"],
       [name |-> "ss", meta |-> "arg", opt |-> "ss"],
       [name |-> "t", meta |-> "arg", opt |-> "t"],
       [name |-> "vcodec", meta |-> "arg", opt |-> "c:v"],
       [name |-> "crf", meta |-> "arg", opt |-> "crf"],
       [name |-> "disable_audio", meta |-> "flag", opt |-> "an"] >>
FFMPEGFields ==
    << [name |-> "filter_complex", meta |-> "none", opt |-> ""],
       [name |-> "loglevel", meta |-> "arg", opt |-> "loglevel"],
       [name |-> "hide_banner", meta |-> "flag", opt |-> "hide_banner"],
       [name |-> "nostats", meta |-> "flag", opt |-> "nostats"],
       [name |-> "progress", meta |-> "arg", opt |-> "progress"] >>

\* the truth value of a field value: None, False, '' and 0 are false
Truthy(value) == value # None /\ value \notin {Bool(FALSE), Str(""), IntVal("0")}

\* the test under which an 'arg' field is emitted
ArgGivenIfTruthy(value) == Truthy(value)
ArgGiven(value) == value # None

\* CmdArgs.from_field_metadatas(instance)
RECURSIVE FromFieldMetadatas(_, _)
FromFieldMetadatas(fields, instance) ==
    IF fields = <<>> THEN <<>>
    ELSE LET f == Head(fields)
             value == instance[f.name]
         IN  (IF f.meta = "arg" /\ ArgGiven(value) THEN <<Opt(f.opt), Val(value[1].v)>>
              ELSE IF f.meta = "flag" /\ Truthy(value) THEN <<Opt(f.opt)>>
              ELSE <<>>)
             \o FromFieldMetadatas(Tail(fields), instance)

\* CmdArgs.add_args(name_values): a pair is [name, value], value None or <<v>>
RECURSIVE AddArgs(_)
AddArgs(name_values) ==
    IF name_values = <<>> THEN <<>>
    ELSE LET nv == Head(name_values)
         IN  (IF nv.value # None THEN <<Opt(nv.name), Val(nv.value[1].v)>> ELSE <<>>)
             \o AddArgs(Tail(name_values))

\* CmdArgs.add_flags(names)
RECURSIVE AddFlags(_)
AddFlags(names) ==
    IF names = <<>> THEN <<>> ELSE <<Opt(Head(names))>> \o AddFlags(Tail(names))

\* FFInput.to_args and FFOutput.to_args (maps, metadata empty)
InputToArgs(inp) ==
    FromFieldMetadatas(FFInputFields, inp)
    \o AddArgs(inp.other_args) \o AddFlags(inp.other_flags)
    \o <<Opt("i"), InFile(inp.file)>>
OutputToArgs(out) ==
    FromFieldMetadatas(FFOutputFields, out)
    \o AddArgs(out.other_args) \o AddFlags(out.other_flags)
    \o <<OutFile(out.file)>>

\* the arguments of the specs k.. of a list, in list order
RECURSIVE InputsArgs(_, _)
InputsArgs(inputs, k) ==
    IF k > Len(inputs) THEN <<>>
    ELSE InputToArgs(inputs[k]) \o InputsArgs(inputs, k + 1)
RECURSIVE OutputsArgs(_, _)
OutputsArgs(outputs, k) ==
    IF k > Len(outputs) THEN <<>>
    ELSE OutputToArgs(outputs[k]) \o OutputsArgs(outputs, k + 1)

\* the global part: field metadata, filter_complex, other_args, other_flags
GlobalArgs(c) ==
    FromFieldMetadatas(FFMPEGFields, c)
    \o (IF c.filter_complex # None THEN <<Opt("filter_complex"), Val(c.filter_complex[1].v)>>
        ELSE <<>>)
    \o AddArgs(c.other_args) \o AddFlags(c.other_flags)

\* a command that puts the global part first
GlobalsFirst(c) ==
    <<Prog>> \o GlobalArgs(c) \o InputsArgs(c.inputs, 1) \o OutputsArgs(c.outputs, 1)

\* FFMPEG.build_command
BuildCommand(c) ==
    <<Prog>> \o InputsArgs(c.inputs, 1) \o GlobalArgs(c) \o OutputsArgs(c.outputs, 1)

(* --------------------- ffmpeg.py: running a command --------------------- *)
\* FFInput(file) and FFOutput(file, overwrite=...) with every other field at
\* its default
FFInput(i, ss) ==
    [file |-> i, f |-> None, t |-> None, ss |-> ss, cv |-> None, safe |-> None,
     accurate_seek |-> None, other_args |-> <<>>, other_flags |-> <<>>]
FFOutput(j, overwrite) ==
    [file |-> j, overwrite |-> Bool(overwrite), ss |-> None, t |-> None,
     vcodec |-> None, crf |-> None, disable_audio |-> Bool(FALSE),
     other_args |-> <<>>, other_flags |-> <<>>]

\* the commands that are run: 1..MaxInputs inputs, 1..MaxOutputs outputs
Commands ==
    { [NoCommand EXCEPT !.inputs = [i \in DOMAIN ss |-> FFInput(i, ss[i])],
                        !.outputs = [j \in DOMAIN ow |-> FFOutput(j, ow[j])],
                        !.filter_complex = fc,
                        !.loglevel = Str("error"),
                        !.other_flags = <<"nostdin">>,
                        !.legacy = lg] :
        fc \in {None, Str("concat")}, lg \in BOOLEAN,
        ss \in UNION {[1..n -> {None, Str("0")}] : n \in 1..MaxInputs},
        ow \in UNION {[1..n -> BOOLEAN] : n \in 1..MaxOutputs} }

\* what the child process does: it exits with a code, or outlives the timeout
Exits(tmo) ==
    {[how |-> "exit", code |-> 0, stdout |-> "", stderr |-> "log"],
     [how |-> "exit", code |-> 1, stdout |-> "out", stderr |-> "err"]}
    \cup (IF tmo # None THEN {[how |-> "timeout", code |-> 0, stdout |-> "", stderr |-> ""]}
          ELSE {})
NotFound == [how |-> "notfound", code |-> 0, stdout |-> "", stderr |-> ""]

\* subprocess.run(..., check=...): does this exit raise CalledProcessError
CalledProcessErrorNever(p) == FALSE
CalledProcessError(p) == p.how = "exit" /\ p.code # 0

\* run_ffmpeg_subprocess(cmd, timeout): the result or the error raised
RunFfmpegSubprocess(a, p) ==
    IF CalledProcessError(p)
    THEN [kind |-> "FFMPEGExecutionError", stdout |-> p.stdout, stderr |-> p.stderr,
          cmd |-> a, how |-> p.how, code |-> p.code]
    ELSE IF p.how = "timeout"
    THEN [kind |-> "FFMPEGCommandTimeoutError", stdout |-> "", stderr |-> "",
          cmd |-> a, how |-> p.how, code |-> p.code]
    ELSE IF p.how = "notfound"
    THEN [kind |-> "FFMPEGNotFoundError", stdout |-> "", stderr |-> "",
          cmd |-> <<>>, how |-> p.how, code |-> p.code]
    ELSE [kind |-> "result", stdout |-> p.stdout, stderr |-> p.stderr,
          cmd |-> a, how |-> p.how, code |-> p.code]

\* the pre-flight loop of FFMPEG.run: an output that may not be replaced
PreflightFirstOnly(c, files) ==
    ~Truthy(c.outputs[1].overwrite) /\ c.outputs[1].file \in files
Preflight(c, files) ==
    \E j \in DOMAIN c.outputs :
        ~Truthy(c.outputs[j].overwrite) /\ c.outputs[j].file \in files

\* the loop over result.output_files that ffmpeg_legacy.FFMPEG.run has and
\* ffmpeg.FFMPEG.run has not
EmptyOutput(c, files, zero) ==
    c.legacy /\ \E j \in DOMAIN c.outputs :
                    c.outputs[j].file \in files /\ c.outputs[j].file \in zero

InitCommand ==
    /\ StartCall
    /\ StartPipeline /\ StartConcat /\ StartSampler /\ StartProbe
    /\ installed \in {{}, {"ffmpeg", "ffprobe"}}
    /\ faults = 0
    /\ cmd \in Commands
    /\ timeout \in {None, <<1>>}
    /\ existing \in SUBSET (1..Len(cmd.outputs))
    /\ empty = {}
    /\ argv = <<>> /\ spec_args = NoArgs
    /\ run_pc = "idle" /\ nrun = 0 /\ run_result = NoResult

\* FFMPEG.get_command
GetCommand ==
    /\ run_pc = "idle" /\ argv = <<>>
    /\ argv' = BuildCommand(cmd)
    /\ UNCHANGED <<cmd, timeout, existing, empty, spec_args, run_pc, nrun, run_result>>
    /\ UNCHANGED notCommand

\* FFMPEG.run up to the start of the child process
Run ==
    /\ run_pc = "idle"
    /\ IF Preflight(cmd, existing)
       THEN /\ run_pc' = "done"
            /\ run_result' = [NoResult EXCEPT !.kind = "FileExistsError"]
            /\ UNCHANGED <<argv, nrun>>
       ELSE /\ argv' = BuildCommand(cmd)
            /\ IF "ffmpeg" \in installed
               THEN /\ run_pc' = "running" /\ nrun' = nrun + 1
                    /\ UNCHANGED run_result
               ELSE /\ run_pc' = "done" /\ UNCHANGED nrun
                    /\ run_result' = RunFfmpegSubprocess(argv', NotFound)
    /\ UNCHANGED <<cmd, timeout, existing, empty, spec_args>>
    /\ UNCHANGED notCommand

\* the child ends (or is killed at the timeout) and FFMPEG.run finishes; on
\* exit 0 every output is written, otherwise some may be left behind; written
\* outputs may have size zero
ProcessExit ==
    /\ run_pc = "running"
    /\ \E p \in Exits(timeout), written \in SUBSET (1..Len(cmd.outputs)),
          zero \in SUBSET (1..Len(cmd.outputs)) :
        /\ p.code = 0 /\ p.how = "exit" => written = 1..Len(cmd.outputs)
        /\ zero \subseteq written
        /\ existing' = existing \cup written
        /\ empty' = (empty \ written) \cup zero
        /\ LET r == RunFfmpegSubprocess(argv, p)
           IN  run_result' =
                 IF r.kind = "result" /\ EmptyOutput(cmd, existing', empty')
                 THEN [r EXCEPT !.kind = "OutputFileIsEmptyError"]
                 ELSE r
    /\ run_pc' = "done"
    /\ UNCHANGED <<cmd, timeout, argv, spec_args, nrun>>
    /\ UNCHANGED notCommand

NextCommand == GetCommand \/ Run \/ ProcessExit
SpecCommand == InitCommand /\ [][NextCommand]_vars

(* ------------- ffmpeg.py: the arguments of one input or output ---------- *)
\* one FFInput or one FFOutput with its declared fields set or unset: a str
\* field is None, '' or a text, the int field None or 0, a bool|None field
\* None, False or True, a bool field False or True
FieldSpecs ==
    { [NoCommand EXCEPT !.inputs = <<[FFInput(1, ss) EXCEPT !.f = f, !.t = t, !.cv = cv,
                                         !.safe = safe, !.accurate_seek = seek]>>] :
        f \in {None, Str(""), Str("mp4")}, t \in {None, Str("5")}, ss \in {None, Str("0")},
        cv \in {None, Str("copy")}, safe \in {None, Bool(FALSE), Bool(TRUE)},
        seek \in {None, Bool(FALSE), Bool(TRUE)} }
    \cup
    { [NoCommand EXCEPT !.outputs = <<[FFOutput(1, ow) EXCEPT !.ss = ss, !.t = t,
                                         !.vcodec = vcodec, !.crf = crf,
                                         !.disable_audio = Bool(an)]>>] :
        ow \in BOOLEAN, ss \in {None, Str("0")}, t \in {None, Str(""), Str("5")},
        vcodec \in {None, Str("copy")}, crf \in {None, IntVal("0"), IntVal("23")},
        an \in BOOLEAN }

InitFields ==
    /\ StartCall
    /\ StartPipeline /\ StartConcat /\ StartSampler /\ StartProbe
    /\ installed = {"ffmpeg", "ffprobe"}
    /\ faults = 0
    /\ cmd \in FieldSpecs
    /\ timeout = None /\ existing = {} /\ empty = {}
    /\ argv = <<>> /\ spec_args = NoArgs
    /\ run_pc = "idle" /\ nrun = 0 /\ run_result = NoResult

\* CmdArgs.from_field_metadatas(input)
InputFromFields ==
    /\ cmd.inputs # <<>> /\ spec_args.of = "none"
    /\ spec_args' = [of |-> "input", args |-> FromFieldMetadatas(FFInputFields, cmd.inputs[1])]
    /\ UNCHANGED <<cmd, timeout, existing, empty, argv, run_pc, nrun, run_result>>
    /\ UNCHANGED notCommand

\* CmdArgs.from_field_metadatas(output)
OutputFromFields ==
    /\ cmd.outputs # <<>> /\ spec_args.of = "none"
    /\ spec_args' = [of |-> "output", args |-> FromFieldMetadatas(FFOutputFields, cmd.outputs[1])]
    /\ UNCHANGED <<cmd, timeout, existing, empty, argv, run_pc, nrun, run_result>>
    /\ UNCHANGED notCommand

NextFields == InputFromFields \/ OutputFromFields
SpecFields == InitFields /\ [][NextFields]_vars

(* ------------------ probe.py, probe_info.py: ProbeInfo ------------------ *)
\* the texts float() accepts, with their values
FloatTexts == {"0", "1", "12"}
Float(text) == IF text = "0" THEN 0 ELSE IF text = "1" THEN 1 ELSE 12

\* the format entries ffprobe prints: duration and start_time are absent
\* (None) or <<text>>
Formats ==
    [duration : {None, <<"N/A">>, <<"abc">>, <<"0">>, <<"12">>},
     start_time : {None, <<"1">>},
     video : BOOLEAN]

\* the check_for_errors argument probe() passes to from_dict
ProbeChecksForErrors == TRUE
CheckForErrors == FALSE

\* ProbeInfo.from_dict(probe_info, check_for_errors)
FromDict(fmt, check_for_errors) ==
    IF check_for_errors /\ (fmt.duration = None \/ fmt.duration = <<"N/A">>)
    THEN [out |-> "NoDurationError", dur |-> None, start_time |-> None]
    ELSE IF check_for_errors /\ ~fmt.video
    THEN [out |-> "NoVideoStreamError", dur |-> None, start_time |-> None]
    ELSE [out |-> "ok", dur |-> fmt.duration, start_time |-> fmt.start_time]

\* probe(fp) raised
ProbeRaised(name) == [out |-> name, dur |-> None, start_time |-> None]

\* ProbeInfo.duration
Duration(o) ==
    IF o.dur # None /\ o.dur[1] \in FloatTexts
    THEN [prop |-> "duration", out |-> "ok", value |-> Float(o.dur[1])]
    ELSE [prop |-> "duration", out |-> "NoDurationError", value |-> 0]

\* ProbeInfo.length
Length(o) ==
    IF o.dur = None \/ o.dur = <<"N/A">>
    THEN [prop |-> "length", out |-> "NoDurationError", value |-> 0]
    ELSE IF o.dur[1] \notin FloatTexts
    THEN [prop |-> "length", out |-> "ValueError", value |-> 0]
    ELSE IF o.start_time = None
    THEN [prop |-> "length", out |-> "TypeError", value |-> 0]
    ELSE [prop |-> "length", out |-> "ok", value |-> Float(o.dur[1]) - Float(o.start_time[1])]

InitProbe ==
    /\ StartCall
    /\ StartPipeline /\ StartConcat /\ StartSampler /\ StartCommand
    /\ installed \in {{}, {"ffmpeg", "ffprobe"}}
    /\ faults = 0
    /\ format \in Formats
    /\ info = None /\ reads = <<>>

\* probe(fp): ffprobe is run, its json parsed
Probe ==
    /\ info = None
    /\ \E exit0 \in BOOLEAN :
          info' = IF "ffprobe" \notin installed THEN ProbeRaised("FFMPEGNotFoundError")
                  ELSE IF ~exit0 THEN ProbeRaised("ProbeError")
                  ELSE FromDict(format, CheckForErrors)
    /\ UNCHANGED <<format, reads>>
    /\ UNCHANGED notProbe

\* the caller reads .duration of the ProbeInfo
ReadDuration ==
    /\ info # None /\ info.out = "ok" /\ Len(reads) < MaxReads
    /\ reads' = Append(reads, Duration(info))
    /\ UNCHANGED <<format, info>>
    /\ UNCHANGED notProbe

\* the caller reads .length of the ProbeInfo
ReadLength ==
    /\ info # None /\ info.out = "ok" /\ Len(reads) < MaxReads
    /\ reads' = Append(reads, Length(info))
    /\ UNCHANGED <<format, info>>
    /\ UNCHANGED notProbe

NextProbe == Probe \/ ReadDuration \/ ReadLength
SpecProbe == InitProbe /\ [][NextProbe]_vars

(* ------------- get_random_clips: the number of clips of a source -------- *)
\* one source of a duration up to MaxDuration, and max_clips_per_video any
\* int, the values below 1 included
CapValues == {-1, 0, 1, 2, DefaultMaxClipsPerVideo}
InitClipCount ==
    /\ StartCall
    /\ StartPipeline
    /\ installed = {"ffmpeg", "ffprobe"}
    /\ faults = 0
    /\ StartConcat
    /\ StartCommand /\ StartProbe
    /\ \E d \in 1..MaxDuration : probed = <<[kind |-> "video", dur |-> d]>>
    /\ sample_args \in [clip_duration : {1, 2, MaxDuration}, random_seed : Seeds,
                        clip_ratio : ClipRatios, max_clips_per_video : CapValues]
    /\ video_paths = <<>>
    /\ rng = 0 /\ rng_used = FALSE
    /\ sampled = [out |-> "none", clips |-> <<>>, after_use |-> FALSE]
    /\ sampled_first = [out |-> "none", clips |-> <<>>, in_order |-> FALSE]

SpecClipCount == InitClipCount /\ [][NextSampler]_vars

(* ------- ffmpeg_compilations.py: the commands the pipeline runs --------- *)
\* the FFMPEG of extract_clip_process for a clip of t seconds from ss, and the one
\* of concatenate_clips_demux (fields outside FFInputFields and
\* FFOutputFields are left out)
ExtractClipCommand(ss, t, use_cuda) ==
    [NoCommand EXCEPT
        !.inputs = <<[FFInput(1, Str(ss)) EXCEPT !.t = Str(t)]>>,
        !.outputs = <<[FFOutput(1, TRUE) EXCEPT
                          !.vcodec = Str(IF use_cuda THEN "h264_nvenc" ELSE "h264"),
                          !.crf = IntVal("23")]>>,
        !.loglevel = Str("error"),
        !.other_flags = <<"nostdin">>]
ConcatDemuxCommand ==
    [NoCommand EXCEPT
        !.inputs = <<[FFInput(1, None) EXCEPT !.f = Str("concat"), !.safe = IntVal("0")]>>,
        !.outputs = <<[FFOutput(1, TRUE) EXCEPT !.vcodec = Str("copy")]>>,
        !.loglevel = Str("error")]

\* the stdin subprocess.run gives the child: none is passed, the parent's
Stdin == "inherited"

InitPipelineCommand ==
    /\ StartCall
    /\ StartPipeline /\ StartConcat /\ StartSampler /\ StartProbe
    /\ installed \in {{}, {"ffmpeg", "ffprobe"}}
    /\ faults = 0
    /\ cmd \in {ExtractClipCommand(ss, t, use_cuda) :
                    ss \in {"0", "1"}, t \in {"1", "2"}, use_cuda \in BOOLEAN}
               \cup {ConcatDemuxCommand}
    /\ timeout = None
    /\ existing \in SUBSET (1..Len(cmd.outputs))
    /\ empty = {}
    /\ argv = <<>> /\ spec_args = NoArgs
    /\ run_pc = "idle" /\ nrun = 0 /\ run_result = NoResult

SpecPipelineCommand == InitPipelineCommand /\ [][NextCommand]_vars

(* ------- ffmpeg.py: extra arguments, and the function ffmpeg() ---------- *)
MaxExtras == 2

\* the extra (name, value) pairs and the extra flags a caller supplies
ExtraPairs ==
    {[name |-> "threads", value |-> Str("2")], [name |-> "f", value |-> Str("concat")]}
ExtraArgs == UNION {[1..n -> ExtraPairs] : n \in 0..MaxExtras}
ExtraFlags == {<<>>, <<"shortest", "re">>}

\* FFMPEG(inputs=[FFInput(..., other_args, other_flags)], outputs=[FFOutput(...,
\* other_args, other_flags)], other_args, other_flags) as the caller builds it
EscapeCommands ==
    { [NoCommand EXCEPT
          !.inputs = <<[FFInput(1, None) EXCEPT !.other_args = ia, !.other_flags = if]>>,
          !.outputs = <<[FFOutput(1, TRUE) EXCEPT !.other_args = oa, !.other_flags = of]>>,
          !.other_args = ca, !.other_flags = cf] :
        ia \in ExtraArgs, if \in ExtraFlags, oa \in ExtraArgs, of \in ExtraFlags,
        ca \in ExtraArgs, cf \in ExtraFlags }

\* the keyword arguments ffmpeg() passes to FFOutput(...)
FfmpegOutputKeywords ==
    {"file", "overwrite", "ss", "duration", "vf", "af", "vcodec", "acodec",
     "video_bitrate", "audio_bitrate", "framerate", "format", "filter_complex",
     "disable_audio", "disable_video", "crf", "preset", "output_args", "command_flags"}

\* the fields the dataclass FFOutput declares: what its __init__ accepts
FFOutputDeclared ==
    {"file", "overwrite", "maps", "map_metadata", "map_chapters", "ss", "t", "duration",
     "to", "vcodec", "video_bitrate", "crf", "qscale_v", "maxrate", "bufsize",
     "framerate", "fps", "s", "aspect", "pix_fmt", "vframes", "keyint_min", "g", "bf",
     "profile_v", "level", "tune", "acodec", "audio_bitrate", "ar", "ac", "vol",
     "aframes", "profile_a", "qscale_a", "vf", "af", "filter_complex", "format",
     "movflags", "brand", "hwaccel", "hwaccel_output_format", "vaapi_device", "preset",
     "x264_params", "x265_params", "disable_audio", "disable_video",
     "disable_subtitles", "disable_data", "metadata", "scodec", "threads",
     "other_args", "other_flags"}

\* the list ffmpeg() stores in input_spec.other: for every pair the dashed name,
\* once for each of the two items of the inner loop
RECURSIVE InputOther(_)
InputOther(args) ==
    IF args = <<>> THEN <<>>
    ELSE <<Opt(Head(args).name), Opt(Head(args).name)>> \o InputOther(Tail(args))

\* an object with one more attribute set on it
SetAttr(obj, attr, value) ==
    [k \in DOMAIN obj \cup {attr} |-> IF k = attr THEN value ELSE obj[k]]

InitEscape ==
    /\ StartPipeline /\ StartConcat /\ StartSampler /\ StartProbe
    /\ installed = {"ffmpeg", "ffprobe"}
    /\ faults = 0
    /\ timeout = None /\ existing = {} /\ empty = {}
    /\ argv = <<>> /\ spec_args = NoArgs
    /\ nrun = 0 /\ run_result = NoResult
    /\ \/ /\ cmd \in EscapeCommands
          /\ run_pc = "idle"
          /\ StartCall
       \/ /\ cmd = NoCommand
          /\ run_pc = "call"
          /\ input_files \in 1..MaxInputs
          /\ input_args \in ExtraArgs
          /\ output_args \in ExtraArgs
          /\ command_flags \in ExtraFlags

\* ffmpeg(input_files, output_file, overwrite_output=True, input_args=...,
\* output_args=..., command_flags=...): the inputs are built, input_args going
\* to the attribute 'other' that to_args does not read; FFOutput(...) is then
\* given keywords it does not declare and raises TypeError
Ffmpeg ==
    /\ run_pc = "call"
    /\ IF FfmpegOutputKeywords \subseteq FFOutputDeclared
       THEN /\ cmd' = [NoCommand EXCEPT
                          !.inputs = [i \in 1..input_files |->
                                        IF input_args # <<>>
                                        THEN SetAttr(FFInput(i, None), "other",
                                                     InputOther(input_args))
                                        ELSE FFInput(i, None)],
                          !.outputs = <<FFOutput(1, TRUE)>>]
            /\ run_pc' = "idle"
            /\ UNCHANGED run_result
       ELSE /\ run_pc' = "done"
            /\ run_result' = [NoResult EXCEPT !.kind = "TypeError"]
            /\ UNCHANGED cmd
    /\ UNCHANGED <<timeout, existing, empty, argv, spec_args, nrun>>
    /\ UNCHANGED notCommand

NextEscape == GetCommand \/ Run \/ ProcessExit \/ Ffmpeg
SpecEscape == InitEscape /\ [][NextEscape]_vars

(* =============================== claims ================================ *)
AllDone == \A i \in DOMAIN task : task[i] = "done"
\* every submitted task sent back a (fp, cp) and the parent read it
AllReturned == Len(clip_filenames) = Len(clip_infos)
Succeeded == {i \in DOMAIN clip_infos :
                 \E k \in DOMAIN clip_filenames : clip_filenames[k].cp = ClipPath(i - 1)}
NoneCount(s) == Cardinality({k \in DOMAIN s : s[k].cp = None})

\* C1: with fail_on_error=False, whatever way a clip's encode or probe fails
\* (non-zero exit, missing binary, empty output), no sibling task is cancelled:
\* every submitted task runs to completion.
C1_FailureIsolation ==
    (entry # "none" /\ ~fail_on_error) => \A i \in DOMAIN task : task[i] # "killed"

\* C2: with fail_on_error=False, once every task has sent back its result,
\* extract_clips returns normally one entry per descriptor: a path for each
\* clip that succeeded and None for each that failed.
C2_ResultAccounting ==
    (~fail_on_error /\ pool = "closed" /\ AllReturned)
        => /\ concat_called
           /\ Len(clips) = Len(clip_infos)
           /\ NoneCount(clips) = Len(clip_infos) - Cardinality(Succeeded)
           /\ \A i \in Succeeded : \E k \in DOMAIN clips : clips[k].cp = ClipPath(i - 1)

\* C3: extract_clips has returned, and the concatenation has been started,
\* only when every submitted extraction task has finished.
C3_Barrier == (concat_called \/ pc = "concat") => AllDone

C3_Witness ==
    /\ pc = "concat"
    /\ Len(clip_infos) >= 2
    /\ clip_filenames[1].cp = ClipPath(1)

\* C4: the ffmpeg and ffprobe processes of the extraction running at one time
\* are never more than the workers of the pool.
C4_BoundedParallelism == Cardinality(Running) <= PoolSize(num_cores)

C4_Witness ==
    /\ Cardinality(Running) = PoolSize(num_cores)
    /\ PoolSize(num_cores) >= 2
    /\ \E i \in DOMAIN task : task[i] = "pending"

\* the paths of the clips that succeeded, by ascending descriptor index
RECURSIVE ByIndex(_, _)
ByIndex(i, n) ==
    IF i > n THEN <<>>
    ELSE (IF i \in Succeeded THEN <<ClipPath(i - 1)>> ELSE <<>>) \o ByIndex(i + 1, n)

\* C5: the list handed to the concatenation is the paths of the successfully
\* extracted clips in ascending descriptor index, for any number of clips.
C5_ConcatOrder == concat_called => concat_clips = ByIndex(1, Len(clip_infos))

\* C6: when the operation has returned or raised, the scratch directory and
\* every file in it are gone.
C6_ScratchRemoved == pc = "done" => (tmp_dir # "present" /\ DOMAIN tmp_files = {})

C6_Witness ==
    /\ pc = "done"
    /\ tmp_dir = "removed"
    /\ result = "FFMPEGExecutionError"
    /\ ClipPaths(clip_filenames) # <<>>

\* C9: create_montage with a non-positive clip_duration or an empty source
\* list fails with ValueError before the scratch directory exists and before
\* any pool, probe or encoder process is started.
C9_ConfigErrorsFirst ==
    (entry = "create_montage" /\ (clip_duration <= 0 \/ video_files = <<>>))
        => /\ tmp_dir = "none"
           /\ pool = "none"
           /\ nspawn = 0
           /\ pc = "done" => result = "ValueError"

\* C10: with every result in, a failed clip does not stop the montage while
\* some clip was extracted (the concatenation is called with the extracted
\* clips); when every clip failed the call fails and writes no output.
C10_PartialFailure ==
    (pc = "done" /\ ~fail_on_error /\ AllReturned /\ Len(clip_infos) >= 1)
        => IF Succeeded # {}
           THEN concat_called /\ concat_clips # <<>>
           ELSE result # "ok" /\ ~output

\* C7: concatenating an empty clip list fails without writing a concat list and
\* without starting a process.  Here for concatenate_clips_recursive, whose
\* base case hands the empty list to concatenate_clips_direct.
C7_EmptyConcatFails ==
    (rc_pc = "done" /\ input_clips = <<>>) =>
        /\ rc_result # "True"
        /\ nwrites = 0
        /\ nconcat = 0

\* the content of the clips of the outermost call, in input order
RECURSIVE InputContent(_)
InputContent(n) == IF n = 0 THEN <<>> ELSE Append(InputContent(n - 1), n)

\* C8: when no concatenation command fails, the output of the chunked
\* concatenation of a non-empty list holds the input clips, each once, in
\* input order, whatever the chunk_size.
C8_ChunkedEquivalence ==
    (rc_pc = "done" /\ input_clips # <<>> /\ chunk_failures = 0) =>
        /\ rc_result = "True"
        /\ OutputFile \in DOMAIN fs
        /\ fs[OutputFile] = InputContent(Len(input_clips))

\* C11: calls of get_random_clips with the same sources, seed, clip_duration
\* and clip_ratio end the same way, with the same descriptors in the same
\* order, whatever the order the paths were passed in and whatever was drawn
\* from the generator before: here every call against the first one.
C11_SamplerDeterminism ==
    sampled.out # "none" =>
        /\ sampled.out = sampled_first.out
        /\ sampled.clips = sampled_first.clips

\* a later call, paths not in sorted order, made after other code drew from
\* the generator, returning clips whose start times were drawn
C11_Witness ==
    /\ sampled.out = "ok"
    /\ sampled.after_use
    /\ sampled_first.in_order
    /\ video_paths # SortedPaths(video_paths)
    /\ Len(sampled.clips) >= 3
    /\ \E i \in DOMAIN sampled.clips : sampled.clips[i].start_time.num > 0

\* C12: every descriptor get_random_clips returns has start_time >= 0 and
\* start_time + duration <= the duration of its source; for a source no
\* longer than clip_duration the start is 0 and the duration is the source's.
C12_ClipBounds ==
    \A i \in DOMAIN sampled.clips :
        LET c == sampled.clips[i]
            d == probed[c.fpath].dur
        IN  /\ c.start_time.num >= 0
            /\ c.start_time.num + c.duration * c.start_time.den <= d * c.start_time.den
            /\ d <= sample_args.clip_duration => (c.start_time.num = 0 /\ c.duration = d)

\* the sources of the latest call that have a descriptor in its result
Sampled == {sampled.clips[i].fpath : i \in DOMAIN sampled.clips}

C14_ErrorMapping ==
    run_result.how # "none" =>
        /\ run_result.kind \in {"result", "OutputFileIsEmptyError"}
             <=> (run_result.how = "exit" /\ run_result.code = 0)
        /\ run_result.kind = "FFMPEGExecutionError"
             <=> (run_result.how = "exit" /\ run_result.code # 0)
        /\ run_result.kind = "FFMPEGExecutionError"
             => /\ run_result.stdout = "out" /\ run_result.stderr = "err"
                /\ run_result.cmd = argv /\ argv # <<>>
        /\ run_result.kind = "FFMPEGCommandTimeoutError" <=> run_result.how = "timeout"
        /\ run_result.kind = "FFMPEGNotFoundError" <=> run_result.how = "notfound"
C14_Witness ==
    /\ run_pc = "done" /\ run_result.kind = "FFMPEGExecutionError"
    /\ run_result.code # 0 /\ run_result.stderr = "err" /\ timeout # None

\* C15: when the process exits with code 0 but an output file named by the
\* command exists with size zero, FFMPEG.run signals OutputFileIsEmptyError
\* instead of returning a successful result.
C15_EmptyOutputDetected ==
    (/\ run_pc = "done" /\ run_result.how = "exit" /\ run_result.code = 0
     /\ \E j \in DOMAIN cmd.outputs : j \in existing /\ j \in empty)
        => run_result.kind = "OutputFileIsEmptyError"

\* C16: FFMPEG.run raises FileExistsError without starting a process and
\* without touching a file whenever one of its outputs exists and does not
\* request overwrite; when every existing output requests overwrite the
\* command is executed.
C16_OverwritePreflight ==
    [][(run_pc = "idle" /\ run_pc' # "idle") =>
          IF \E j \in DOMAIN cmd.outputs :
                 j \in existing /\ cmd.outputs[j].overwrite = Bool(FALSE)
          THEN /\ run_result'.kind = "FileExistsError"
               /\ run_pc' = "done" /\ nrun' = nrun
               /\ existing' = existing /\ empty' = empty
          ELSE /\ run_result'.kind # "FileExistsError"
               /\ "ffmpeg" \in installed => (run_pc' = "running" /\ nrun' = nrun + 1)]_vars
C16_Witness ==
    /\ run_result.kind = "FileExistsError" /\ nrun = 0
    /\ Len(cmd.outputs) >= 2
    /\ cmd.outputs[1].overwrite = Bool(TRUE) /\ 1 \in existing
    /\ cmd.outputs[2].overwrite = Bool(FALSE) /\ 2 \in existing

\* the positions of a token in the built argument list
PosOf(tok) == {k \in DOMAIN argv : argv[k] = tok}
\* where the segment of input i / of output j ends, counted from the lengths
\* of the segments
InputEnd(i) == 1 + Len(InputsArgs(SubSeq(cmd.inputs, 1, i), 1))
OutputEnd(j) == Len(argv) - Len(OutputsArgs(cmd.outputs, j + 1))

\* C17: build_command places the arguments of all inputs, each ending with
\* its -i <file>, in source order before the filter_complex argument and
\* before the arguments of every output; the outputs follow in source order,
\* each output's file path exactly once, as the last token of its segment.
C17_ArgvOrder ==
    argv # <<>> =>
        /\ \A i \in DOMAIN cmd.inputs :
              /\ PosOf(InFile(i)) = {InputEnd(i)}
              /\ argv[InputEnd(i) - 1] = Opt("i")
              /\ SubSeq(argv, InputEnd(i) - Len(InputToArgs(cmd.inputs[i])) + 1, InputEnd(i))
                   = InputToArgs(cmd.inputs[i])
        /\ \A j \in DOMAIN cmd.outputs :
              /\ PosOf(OutFile(j)) = {OutputEnd(j)}
              /\ SubSeq(argv, OutputEnd(j) - Len(OutputToArgs(cmd.outputs[j])) + 1, OutputEnd(j))
                   = OutputToArgs(cmd.outputs[j])
              /\ OutputEnd(j) - Len(OutputToArgs(cmd.outputs[j])) + 1 > InputEnd(Len(cmd.inputs))
        /\ \A k \in PosOf(Opt("filter_complex")) :
              /\ k > InputEnd(Len(cmd.inputs))
              /\ k < OutputEnd(1) - Len(OutputToArgs(cmd.outputs[1])) + 1
        /\ cmd.filter_complex # None => PosOf(Opt("filter_complex")) # {}
        /\ OutputEnd(Len(cmd.outputs)) = Len(argv)
C17_Witness ==
    /\ argv # <<>> /\ Len(cmd.inputs) >= 2 /\ Len(cmd.outputs) >= 2
    /\ cmd.filter_complex # None
    /\ cmd.inputs[2].ss # None /\ cmd.outputs[1].overwrite = Bool(TRUE)
    /\ cmd.outputs[2].overwrite = Bool(FALSE)

\* the spec whose arguments were built, and its declared fields
BuiltFields == IF spec_args.of = "input" THEN FFInputFields ELSE FFOutputFields
BuiltSpec == IF spec_args.of = "input" THEN cmd.inputs[1] ELSE cmd.outputs[1]
\* a value field is set when it is not None, a boolean field when it is True
IsSet(k) ==
    LET value == BuiltSpec[BuiltFields[k].name]
    IN  IF BuiltFields[k].meta = "flag" THEN value = Bool(TRUE) ELSE value # None
\* the tokens of the set fields declared before field k
RECURSIVE TokensBefore(_)
TokensBefore(k) ==
    IF k = 1 THEN 0
    ELSE TokensBefore(k - 1)
         + (IF ~IsSet(k - 1) THEN 0 ELSE IF BuiltFields[k - 1].meta = "flag" THEN 1 ELSE 2)

\* C18: for an input or output spec with N declared fields set, the arguments
\* built from its field metadata hold exactly N entries, a -<flag> <value> pair
\* per set value field and a bare -<flag> per set boolean field, in declaration
\* order, nothing for unset fields and no flag name twice.
C18_FieldRoundTrip ==
    spec_args.of # "none" =>
        LET args == spec_args.args
            opts == {p \in DOMAIN args : args[p].kind = "opt"}
        IN  /\ Len(args) = TokensBefore(Len(BuiltFields) + 1)
            /\ Cardinality(opts) = Cardinality({k \in DOMAIN BuiltFields : IsSet(k)})
            /\ \A k \in DOMAIN BuiltFields :
                  IsSet(k) =>
                     /\ args[TokensBefore(k) + 1] = Opt(BuiltFields[k].opt)
                     /\ BuiltFields[k].meta = "arg"
                          => args[TokensBefore(k) + 2] = Val(BuiltSpec[BuiltFields[k].name][1].v)
            /\ \A p, q \in opts : args[p] = args[q] => p = q
C18_Witness ==
    /\ spec_args.of = "output"
    /\ cmd.outputs[1].overwrite = Bool(TRUE) /\ cmd.outputs[1].crf = IntVal("0")
    /\ cmd.outputs[1].t = Str("") /\ cmd.outputs[1].ss = None
    /\ cmd.outputs[1].disable_audio = Bool(FALSE)
    /\ Len(spec_args.args) = 5

\* the probed format has no usable duration: absent, or not a number
NoUsableDuration == format.duration = None \/ format.duration[1] \notin FloatTexts

\* C19 as stated: parsing a probe result with a missing or non-numeric
\* duration does not raise; NoDurationError is raised only when, and every
\* time, the caller reads .duration of such a result.
C19_OnlyDurationRaises ==
    /\ info # None => info.out # "NoDurationError"
    /\ \A k \in DOMAIN reads :
          reads[k].out = "NoDurationError"
             <=> (reads[k].prop = "duration" /\ NoUsableDuration)

\* C19 amended: parsing such a probe result does not raise; every read of
\* .duration raises NoDurationError, a read of a result with a numeric
\* duration never does, and the only other raise is a read of .length on a
\* result whose duration is absent or N/A.
C19_DeferredDurationError ==
    /\ info # None => info.out # "NoDurationError"
    /\ (info # None /\ "ffprobe" \in installed /\ info.out # "ProbeError") => info.out = "ok"
    /\ \A k \in DOMAIN reads :
          /\ reads[k].prop = "duration"
               => (reads[k].out = "NoDurationError" <=> NoUsableDuration)
          /\ reads[k].out = "NoDurationError" => NoUsableDuration
          /\ (reads[k].prop = "length" /\ reads[k].out = "NoDurationError")
               => format.duration \in {None, <<"N/A">>}
C19_Witness ==
    /\ info # None /\ info.out = "ok" /\ format.duration = None
    /\ Len(reads) >= 2
    /\ \A k \in DOMAIN reads :
          reads[k].prop = "duration" /\ reads[k].out = "NoDurationError"

\* C20: at every recursion level of concatenate_clips_recursive called with
\* chunk_size = c, every concatenation invocation (every concat list written)
\* lists at most c input files, whatever the number of clips.
C20_InvocationBound ==
    nwrites > 0 => Len(concat_list) <= called_chunk_size

\* C21: every concatenation invocation, the base case and every intermediate
\* chunk at every recursion level, is a stream-copy command (video and audio
\* codec copy): no concatenation step re-encodes.
C21_StreamCopy ==
    nconcat > 0 => (concat_cmd.vcodec = "copy" /\ concat_cmd.acodec = "copy")

\* C22: a chunk whose concatenation fails is omitted from the list passed to
\* the next recursion level while the successful chunks are kept in their
\* original order; if every chunk of a level fails, concatenate_clips_recursive
\* reports failure, makes no further invocation and writes no final output.
C22_ChunkFailures ==
    [][/\ (rc_pc = "chunks" /\ chunk_i' = chunk_i + 1) =>
            IF chunk_failures' > chunk_failures
            THEN intermediate_montages' = intermediate_montages
            ELSE intermediate_montages' = Append(intermediate_montages, ChunkFile(chunk_i))
       /\ (rc_pc = "chunks" /\ rc_pc' = "enter") =>
            (rc_clips' = intermediate_montages /\ nconcat' = nconcat)
       /\ (rc_pc = "chunks" /\ rc_pc' # "chunks" /\ intermediate_montages = <<>>) =>
            /\ rc_pc' = "done" /\ rc_result' = "False"
            /\ nconcat' = nconcat /\ nwrites' = nwrites /\ fs' = fs
            /\ OutputFile \notin DOMAIN fs']_vars
C22_Witness ==
    /\ rc_pc = "enter" /\ chunk_failures >= 1
    /\ Len(rc_clips) >= 2
    /\ rc_clips[1] = ChunkFile(0) /\ rc_clips[2] = ChunkFile(2)

\* C23: when exactly one intermediate chunk output remains at a recursion
\* level, it is moved to the output path directly and no further
\* concatenation process is started for that level.
C23_SingleChunkMoved ==
    [][(rc_pc = "chunks" /\ rc_pc' # "chunks" /\ Len(intermediate_montages) = 1) =>
          /\ rc_pc' = "done" /\ rc_result' = "True"
          /\ nconcat' = nconcat /\ nwrites' = nwrites
          /\ OutputFile \in DOMAIN fs'
          /\ fs'[OutputFile] = fs[intermediate_montages[1]]
          /\ intermediate_montages[1] \notin DOMAIN fs']_vars
C23_Witness ==
    /\ rc_pc = "done" /\ rc_result = "True" /\ Len(intermediate_montages) = 1
    /\ chunk_i >= 2 /\ OutputFile \in DOMAIN fs
    /\ concat_cmd.output # OutputFile

\* the descriptors the latest call made for source k
ClipsFor(k) == {i \in DOMAIN sampled.clips : sampled.clips[i].fpath = k}

\* C24: for a source of duration D > 0, get_random_clips emits exactly 1
\* descriptor if D < clip_duration and otherwise exactly
\* max(1, min(max_clips_per_video, floor(D / clip_ratio))) descriptors, for
\* every value of max_clips_per_video and whatever the seed.
C24_ClipCount ==
    sampled.out = "ok" =>
        \A k \in DOMAIN probed :
            (probed[k].kind = "video" /\ probed[k].dur > 0) =>
                Cardinality(ClipsFor(k)) =
                    IF probed[k].dur < sample_args.clip_duration THEN 1
                    ELSE Max(1, Min(sample_args.max_clips_per_video,
                                    probed[k].dur \div sample_args.clip_ratio))

\* C25: for a source with D > clip_duration every start time computed by
\* get_random_clips, the single uniformly drawn start and each evenly spaced
\* start after its jitter, satisfies 0 <= start <= D - clip_duration.
C25_StartRange ==
    \A i \in DOMAIN sampled.clips :
        LET c == sampled.clips[i]
            d == probed[c.fpath].dur
        IN  d > sample_args.clip_duration =>
                /\ c.start_time.num >= 0
                /\ c.start_time.num <= (d - sample_args.clip_duration) * c.start_time.den
C25_Witness ==
    /\ sampled.out = "ok" /\ Len(sampled.clips) >= 3
    /\ probed[1].dur > sample_args.clip_duration
    /\ sampled.clips[1].start_time.num = 0
    /\ \E i \in DOMAIN sampled.clips :
          /\ sampled.clips[i].start_time.num > 0
          /\ sampled.clips[i].start_time.num
               < (probed[1].dur - sample_args.clip_duration) * sampled.clips[i].start_time.den

\* the clip paths the workers have sent back so far, read or still queued
SentBack ==
    [k \in DOMAIN clip_filenames |-> clip_filenames[k].cp]
    \o [k \in DOMAIN outqueue |-> outqueue[k].cp]

\* C26: no two extraction tasks of one batch have the same output file path:
\* the path of descriptor i is unique to i and lies inside the scratch
\* directory, so concurrent workers never write the same file.
C26_UniqueClipPaths ==
    pc = "extracting" =>
        /\ \A a, b \in DOMAIN SentBack :
              (a # b /\ SentBack[a] # None) => SentBack[a] # SentBack[b]
        /\ \A a \in DOMAIN SentBack :
              SentBack[a] # None => SentBack[a] \in DOMAIN tmp_files
        /\ \A i, j \in DOMAIN task :
              (i # j /\ task[i] \in {"ffmpeg", "ffprobe"} /\ task[j] \in {"ffmpeg", "ffprobe"})
                 => ClipPath(i - 1) # ClipPath(j - 1)
C26_Witness ==
    /\ pc = "extracting"
    /\ task[ManyClips - 1] = "ffprobe" /\ task[ManyClips] = "ffprobe"
    /\ ClipPath(ManyClips - 2) \in DOMAIN tmp_files
    /\ ClipPath(ManyClips - 1) \in DOMAIN tmp_files
    /\ \E a \in DOMAIN SentBack : SentBack[a] = ClipPath(1)

\* C27: every encoder invocation of the pipeline, each clip extraction and
\* each concatenation, runs with interactive input disabled: by the nostdin
\* flag in its argument list or by a closed (null) stdin of the process.
C27_NoInteractiveInput ==
    nrun > 0 => ((\E k \in DOMAIN argv : argv[k] = Opt("nostdin")) \/ Stdin = "devnull")

\* the position of a token in argv, 0 when it is not there
Pos(tok) ==
    IF \E k \in DOMAIN argv : argv[k] = tok
    THEN CHOOSE k \in DOMAIN argv : argv[k] = tok
    ELSE 0

\* the tokens a caller expects for a list of pairs and for a list of flags
PairTokens(pairs) ==
    [k \in 1..(2 * Len(pairs)) |->
        IF k % 2 = 1 THEN Opt(pairs[(k + 1) \div 2].name)
        ELSE Val(pairs[k \div 2].value[1].v)]
FlagTokens(flags) == [k \in DOMAIN flags |-> Opt(flags[k])]

\* part stands in argv, in order, strictly between the positions lo and hi
Within(part, lo, hi) ==
    part # <<>> =>
        /\ lo > 0 /\ hi > 0
        /\ \E k \in (lo + 1)..(hi - Len(part)) :
              \A m \in DOMAIN part : argv[k + m - 1] = part[m]

\* C28: escape-hatch options are never dropped: once a command's argument
\* vector is built, or the call of ffmpeg() is over, every extra (name, value)
\* pair and every extra flag supplied for an input, for the output or for the
\* command (as other_args/other_flags, or as input_args/output_args/
\* command_flags of ffmpeg()) stands in the vector, in the order given, in the
\* segment it was supplied for: before its input's -i file, or between the last
\* input and the output file.
C28_EscapeHatchKept ==
    (argv # <<>> \/ run_pc = "done") =>
        LET called == input_files > 0
            nin == IF called THEN input_files ELSE Len(cmd.inputs)
            inArgs(k) == IF called THEN input_args ELSE cmd.inputs[k].other_args
            inFlags(k) == IF called THEN <<>> ELSE cmd.inputs[k].other_flags
            outArgs == IF called THEN output_args ELSE cmd.outputs[1].other_args
            outFlags == IF called THEN <<>> ELSE cmd.outputs[1].other_flags
            cmdArgs == IF called THEN <<>> ELSE cmd.other_args
            cmdFlags == IF called THEN command_flags ELSE cmd.other_flags
            before(k) == IF k = 1 THEN Pos(Prog) ELSE Pos(InFile(k - 1))
        IN  /\ \A k \in 1..nin :
                /\ Within(PairTokens(inArgs(k)), before(k), Pos(InFile(k)))
                /\ Within(FlagTokens(inFlags(k)), before(k), Pos(InFile(k)))
            /\ Within(PairTokens(cmdArgs), Pos(InFile(nin)), Pos(OutFile(1)))
            /\ Within(FlagTokens(cmdFlags), Pos(InFile(nin)), Pos(OutFile(1)))
            /\ Within(PairTokens(outArgs), Pos(InFile(nin)), Pos(OutFile(1)))
            /\ Within(FlagTokens(outFlags), Pos(InFile(nin)), Pos(OutFile(1)))

\* C29: in concatenate_clips_recursive no concatenation command writes to one
\* of the files it reads, nor to a file that a later command of the same level
\* still has to read: the chunk_<i>.mp4 a level writes never replaces a
\* chunk_<i>.mp4 of the previous level that is among that level's inputs.
C29_NoInputOverwritten ==
    nconcat > 0 =>
        /\ \A k \in DOMAIN concat_list : concat_list[k] # concat_cmd.output
        /\ (rc_pc = "chunks" /\ chunk_i >= 1) =>
              \A k \in (chunk_i * chunk_size + 1)..Len(rc_clips) :
                  rc_clips[k] # concat_cmd.output

\* a call of concatenate_clips_recursive on a non-empty list returns
Returns == (rc_pc = "enter" /\ input_clips # <<>>) ~> (rc_pc = "done")

\* C30 as stated: concatenate_clips_recursive returns for every non-empty list
\* and every chunk_size >= 1, chunks failing or not, and each recursive call is
\* made on a strictly shorter list or reaches the base case.
C30_StrictlyShorter ==
    /\ Returns
    /\ [][(rc_pc = "chunks" /\ rc_pc' = "enter") =>
             (Len(rc_clips') < Len(rc_clips) \/ Len(rc_clips') <= chunk_size')]_vars

\* C30 amended: concatenate_clips_recursive returns for every non-empty list
\* and every chunk_size >= 1, chunks failing or not; each recursive call is
\* made on a list no longer than its caller's, and it reaches the base case or
\* splits its list into fewer chunks than the list has files.
C30_Terminates ==
    /\ Returns
    /\ [][(rc_pc = "chunks" /\ rc_pc' = "enter") =>
             /\ Len(rc_clips') <= Len(rc_clips)
             /\ \/ Len(rc_clips') <= chunk_size'
                \/ NumChunks(rc_clips', chunk_size') < Len(rc_clips')]_vars

\* a call with chunk_size 1 on more clips than the default chunk size has
\* returned after a second level of chunks, one command having failed
C30_Witness ==
    /\ rc_pc = "done"
    /\ called_chunk_size = 1
    /\ Len(input_clips) > DefaultChunkSize
    /\ nconcat > Len(input_clips)
    /\ chunk_failures >= 1

====
